---- MODULE Spec2Model ----
(***************************************************************************)
(* Five specifications over one state:                                     *)
(*                                                                         *)
(* Spec, the remote deployment of the server tree:                         *)
(*   scripts/deploy.js   scanServerDirectory, getSyncAction,               *)
(*                       analyzeDeployment, deploy                         *)
(*   scripts/lib/sftp.js getRemoteFileInfo, ensureRemoteDir                *)
(*   scripts/lib/metadata.js askConfirmation                               *)
(* IndexSpec, the check of the mods directory against its index:           *)
(*   lib/server-builder.js  ServerBuilder constructor, verifyModIndexes    *)
(*   scripts/sync.js, scripts/lib/mods.js  main, scanModsAndIndex          *)
(* PackSpec, the manifest builders:                                        *)
(*   lib/common.js isSupported; lib/server-builder.js ServerBuilder and    *)
(*   MrPackBuilder scanModsDirectory, buildIndexJson;                      *)
(*   scripts/lib/mods.js parseIndexFile;                                   *)
(*   scripts/lib/builder.js generateModrinthIndex                          *)
(*   lib/common.js getModrinthVersionId                                    *)
(* ModsSpec, the selective update of the remote mods directory:            *)
(*   scripts/lib/sftp.js compareMods, deployMods                           *)
(* CacheSpec, the download of the server's mods through the cache:         *)
(*   scripts/lib/instance.js downloadWithCache, downloadServerMods         *)
(* Each specification holds the variables of the others at rest.           *)
(*                                                                         *)
(* A path is the sequence of its segments ("mods/a.jar" is                 *)
(* <<"mods", "a.jar">>), so that basename, dirname, the top-level segment  *)
(* and the prefix tests of the code are computed as the code computes      *)
(* them.  Remote paths are kept relative to sftpConfig.remotePath: the     *)
(* remote root is the empty path.                                          *)
(***************************************************************************)
EXTENDS Integers, Sequences, FiniteSets, TLC

(* ------------------------------ bounds --------------------------------- *)
\* file sizes are 1..MaxSize
MaxSize == 2
\* at most MaxFiles files in all, local server tree and remote host together
MaxFiles == 2
\* at most MaxFaults remote calls of one run fail for a reason other than
\* the state of the remote tree (a stat or list of a path that is there, a
\* mkdir, a delete, a put)
MaxFaults == 1

(* --------------------------- the path universe -------------------------- *)
\* every entry (directory or file) the model knows, in the depth-first
\* order in which scanDir meets them
ScanOrder ==
  << <<"libraries">>, <<"libraries", "lib.jar">>,
     <<"mods">>, <<"mods", "a.jar">>, <<"mods", "ops.json">>,
     <<"mods", "sub">>, <<"mods", "sub", "ops.json">>,
     <<"ops.json">>,
     <<"world">>, <<"world", "level.dat">> >>

FilePaths ==
  { <<"libraries", "lib.jar">>, <<"mods", "a.jar">>, <<"mods", "ops.json">>,
    <<"mods", "sub", "ops.json">>, <<"ops.json">>, <<"world", "level.dat">> }

DirPaths == { <<"libraries">>, <<"mods">>, <<"mods", "sub">>, <<"world">> }

\* the remote root, sftpConfig.remotePath
Root == << >>

(* ------------------------------ path helpers ---------------------------- *)
\* path.basename
basename(p) == p[Len(p)]

\* path.posix.dirname
dirname(p) == SubSeq(p, 1, Len(p) - 1)

\* p lies strictly below directory d
IsUnder(p, d) == Len(p) > Len(d) /\ SubSeq(p, 1, Len(d)) = d

\* the directories a path needs: every proper prefix, the root included
Ancestors(p) == { SubSeq(p, 1, n) : n \in 0..(Len(p) - 1) }

AncestorsOfAll(S) == UNION { Ancestors(p) : p \in S }

\* the elements of the sequence s, as a set
Range(s) == { s[i] : i \in 1..Len(s) }

\* the names of a sequence of items
Names(s) == { s[i].name : i \in 1..Len(s) }

(* ------------------------------ deploy.js -------------------------------- *)
\* getSyncAction: the policy is decided by the top-level segment
getSyncAction(relativePath) ==
  IF relativePath[1] \in {"mods", "libraries", "kubejs", "configureddefaults"}
    THEN "exact-sync"
    ELSE "upload-only"

\* the --skip-libraries test of scanDir
SkippedByFlag(skipLib, relativeName) ==
  skipLib /\ (relativeName = <<"libraries">>
              \/ (Len(relativeName) > 1 /\ relativeName[1] = "libraries"))

\* scanServerDirectory: one item per directory and per file, directories
\* before their content; lcl maps each local file to its size.  scanDir
\* does not descend into an entry it skips, so an entry is met only if
\* neither it nor a directory above it is skipped.
scanServerDirectory(lcl, skipLib) ==
  LET Present(p) == \/ p \in DOMAIN lcl
                    \/ \E f \in DOMAIN lcl : IsUnder(f, p)
      Kept(p)    == /\ Present(p)
                    /\ \A n \in 1..Len(p) :
                         ~SkippedByFlag(skipLib, SubSeq(p, 1, n))
      kept       == SelectSeq(ScanOrder, Kept)
  IN  [ i \in 1..Len(kept) |->
          IF kept[i] \in DOMAIN lcl
            THEN [name |-> kept[i], type |-> "file",
                  size |-> lcl[kept[i]], action |-> getSyncAction(kept[i])]
            \* a directory entry carries no size; 0 stands for the
            \* missing field
            ELSE [name |-> kept[i], type |-> "directory",
                  size |-> 0, action |-> getSyncAction(kept[i])] ]

\* protectedFiles of analyzeDeployment
protectedFiles ==
  {"banned-ips.json", "banned-players.json", "blacklist.json",
   "whitelist.json", "ops.json"}

(* ------------------------------- sftp.js --------------------------------- *)
\* getRemoteFileInfo: sftp.stat, and any error of it read as "not there".
\* rf maps each remote file to its size, rd is the set of remote
\* directories, sf the paths whose stat call throws although the path is
\* there.  The size reported for a directory is never compared with a file
\* size in this model; 0 stands for it.
getRemoteFileInfo(rf, rd, sf, remotePath) ==
  IF remotePath \in sf
    THEN [exists |-> FALSE, size |-> 0, isDirectory |-> FALSE]
    ELSE IF remotePath \in DOMAIN rf
      THEN [exists |-> TRUE, size |-> rf[remotePath], isDirectory |-> FALSE]
      ELSE IF remotePath \in rd
        THEN [exists |-> TRUE, size |-> 0, isDirectory |-> TRUE]
        ELSE [exists |-> FALSE, size |-> 0, isDirectory |-> FALSE]

\* sftp.list: the direct children of a remote directory, not its
\* descendants; type "-" is a regular file, "d" a directory
sftpList(rf, rd, remoteDirPath) ==
  LET Child(p) == /\ p \in (DOMAIN rf) \cup rd
                  /\ Len(p) = Len(remoteDirPath) + 1
                  /\ IsUnder(p, remoteDirPath)
      children == SelectSeq(ScanOrder, Child)
  IN  [ i \in 1..Len(children) |->
          [name |-> basename(children[i]),
           type |-> IF children[i] \in DOMAIN rf THEN "-" ELSE "d"] ]

\* IsProtected with a slip: only a file of unchanged size is protected
IsProtectedIfSameSize(item, remoteInfo) ==
  /\ basename(item.name) \in protectedFiles
  /\ remoteInfo.exists
  /\ remoteInfo.size = item.size

\* the test of analyzeDeployment that sends a file to `protected`
IsProtected(item, remoteInfo) ==
  basename(item.name) \in protectedFiles /\ remoteInfo.exists

\* NeedsUpload with a slip: the size comparison is missing
NeedsUploadIfAbsent(item, remoteInfo) == ~remoteInfo.exists

\* the test of analyzeDeployment that sends a file to `toUpload`; a file
\* that fails it is `unchanged`
NeedsUpload(item, remoteInfo) ==
  ~remoteInfo.exists \/ remoteInfo.size # item.size

\* the first loop of analyzeDeployment, per list: whether a file item is
\* pushed to it.  The `continue` of the protected branch keeps a protected
\* file out of the two other lists.
PushedToProtect(item, remoteInfo) == IsProtected(item, remoteInfo)

\* PushedToUpload with a slip: the `continue` of the protected branch is
\* missing
PushedToUploadNoContinue(item, remoteInfo) == NeedsUpload(item, remoteInfo)

PushedToUpload(item, remoteInfo) ==
  ~IsProtected(item, remoteInfo) /\ NeedsUpload(item, remoteInfo)

\* PushedToUnchanged with a slip: the `continue` of the protected branch
\* is missing
PushedToUnchangedNoContinue(item, remoteInfo) == ~NeedsUpload(item, remoteInfo)

PushedToUnchanged(item, remoteInfo) ==
  ~IsProtected(item, remoteInfo) /\ ~NeedsUpload(item, remoteInfo)

\* exactSyncDirs with a slip: an upload-only directory is in the list
exactSyncDirsWithWorld(skipLib) ==
  LET Stays(dir) == ~(skipLib /\ dir = "libraries")
  IN  SelectSeq(<<"mods", "libraries", "kubejs", "configureddefaults",
                  "world">>, Stays)

\* exactSyncDirs with a slip: the --skip-libraries filter is missing
exactSyncDirsUnfiltered(skipLib) ==
  <<"mods", "libraries", "kubejs", "configureddefaults">>

\* exactSyncDirs of analyzeDeployment, after the --skip-libraries filter
exactSyncDirs(skipLib) ==
  LET Stays(dir) == ~(skipLib /\ dir = "libraries")
  IN  SelectSeq(<<"mods", "libraries", "kubejs", "configureddefaults">>, Stays)

\* localFilesOf with a slip: the path.basename is missing
localFilesOfFullName(items, syncDir) ==
  { it.name :
      it \in { x \in Range(items) :
                 /\ Len(x.name) > 1 /\ x.name[1] = syncDir
                 /\ x.type = "file" } }

\* the base names of the local files below syncDir, at any depth
localFilesOf(items, syncDir) ==
  { basename(it.name) :
      it \in { x \in Range(items) :
                 /\ Len(x.name) > 1 /\ x.name[1] = syncDir
                 /\ x.type = "file" } }

\* the body of the second loop of analyzeDeployment for one syncDir; lf is
\* the set of directories whose sftp.list throws
DeletesOf(syncDir, items, rf, rd, sf, lf) ==
  LET remoteDirPath == <<syncDir>>
      remoteDirInfo == getRemoteFileInfo(rf, rd, sf, remoteDirPath)
  IN  IF remoteDirInfo.exists /\ remoteDirInfo.isDirectory
           /\ remoteDirPath \notin lf
        THEN LET remoteFiles == sftpList(rf, rd, remoteDirPath)
                 localFiles  == localFilesOf(items, syncDir)
                 Obsolete(remoteFile) ==
                   remoteFile.type = "-" /\ remoteFile.name \notin localFiles
                 dels == SelectSeq(remoteFiles, Obsolete)
             IN  [ i \in 1..Len(dels) |->
                     [name       |-> <<syncDir, dels[i].name>>,
                      remotePath |-> remoteDirPath \o <<dels[i].name>>] ]
        ELSE << >>

\* the second loop of analyzeDeployment, over the directories dirs
RECURSIVE DeletePass(_, _, _, _, _, _)
DeletePass(dirs, items, rf, rd, sf, lf) ==
  IF dirs = << >> THEN << >>
  ELSE DeletesOf(Head(dirs), items, rf, rd, sf, lf)
         \o DeletePass(Tail(dirs), items, rf, rd, sf, lf)

\* analyzeDeployment: the plan for the scanned items against the remote
\* tree (rf, rd), when the stat calls of sf and the list calls of lf throw
analyzeDeployment(items, rf, rd, sf, lf, skipLib) ==
  LET Info(it)  == getRemoteFileInfo(rf, rd, sf, it.name)
      Up(it)    == it.type = "file" /\ PushedToUpload(it, Info(it))
      Same(it)  == it.type = "file" /\ PushedToUnchanged(it, Info(it))
      Prot(it)  == it.type = "file" /\ PushedToProtect(it, Info(it))
  IN  [toUpload  |-> SelectSeq(items, Up),
       toDelete  |-> DeletePass(exactSyncDirs(skipLib), items, rf, rd, sf, lf),
       unchanged |-> SelectSeq(items, Same),
       protected |-> SelectSeq(items, Prot)]

NoPlan ==
  [toUpload |-> << >>, toDelete |-> << >>, unchanged |-> << >>,
   protected |-> << >>]

(* ------------------------------- state ----------------------------------- *)
VARIABLES
  local,         \* releases/server: local file path -> size
  remoteFiles,   \* the remote host: file path -> size
  remoteDirs,    \* the remote host: the directories that exist
  remote0,       \* remoteFiles as it was before the run
  skipLibraries, \* parseArgs: --skip-libraries
  autoConfirm,   \* parseArgs: -y / --yes
  pc,            \* where deploy() stands
  connOpen,      \* the SFTP connection is open
  items,         \* the result of scanServerDirectory
  analysis,      \* the plan returned by analyzeDeployment
  statFail,      \* the paths whose stat threw during the analysis
  listFail,      \* the directories whose list threw during the analysis
  di,            \* index of the next entry of analysis.toDelete
  ui,            \* index of the next entry of analysis.toUpload
  log,           \* the remote calls of the execution, in order
  faults,        \* number of remote calls that failed so far
  result,        \* "none", "true", "false" (deploy's return) or "exit1"
  replan,        \* the plan of a second analysis after a successful run
  confirmed      \* "notAsked", or what askConfirmation resolved to

vars == <<local, remoteFiles, remoteDirs, remote0, skipLibraries, autoConfirm,
          pc, connOpen, items, analysis, statFail, listFail, di, ui, log,
          faults, result, replan, confirmed>>

\* the state of the index check of the builds (build-server.js, sync.js)
VARIABLES
  program,        \* "none", "server" (build-server.js) or "sync" (sync.js)
  ipc,            \* where the program stands
  modsDirExists,  \* the mods directory exists
  indexDirExists, \* its .index directory exists
  modFiles,       \* the binaries of the mods directory
  indexFiles,     \* the `filename` of each descriptor of .index
  buildDir,       \* the staging directory .server: "absent", "stale", "fresh"
  buildDir0,      \* buildDir as it was before the run
  assets,         \* the asset copies of metadata/: "old", "removed", "copied"
  report,         \* the offender lists printed by the check
  exitCode        \* "none", or the exit code of the process

ivars == <<program, ipc, modsDirExists, indexDirExists, modFiles, indexFiles,
           buildDir, buildDir0, assets, report, exitCode>>

\* no offender list was printed
NoReport == [files |-> {}, indexes |-> {}, printed |-> FALSE]

\* no build or sync is running
IndexIdle ==
  /\ program = "none" /\ ipc = "idle"
  /\ modsDirExists = FALSE /\ indexDirExists = FALSE
  /\ modFiles = {} /\ indexFiles = {}
  /\ buildDir = "absent" /\ buildDir0 = "absent"
  /\ assets = "old"
  /\ report = NoReport
  /\ exitCode = "none"

\* the state of the manifest builders
VARIABLES
  mods,           \* the instance: descriptor file name -> descriptor and binary
  builder,        \* "none", "server", "mrpack" or "modrinth"
  options,        \* the options scanModsDirectory was called with
  files,          \* the `files` of the manifest
  classified,     \* the mods with their env, before `files` is filtered
  overrideMods,   \* MrPackBuilder: the mods shipped as overrides
  scanFailed,     \* the scan threw
  manifest        \* the index object written or returned

pvars == <<mods, builder, options, files, classified, overrideMods,
           scanFailed, manifest>>

\* no index object has been produced
NoManifest == [written |-> FALSE, files |-> << >>]

\* the options of a scanModsDirectory call that names no pattern
NoOptions ==
  [ensureMods |-> {}, ignoreMods |-> {}, ensureOptional |-> {},
   includeAll |-> FALSE]

\* no manifest builder is running
PackIdle ==
  /\ mods = << >>
  /\ builder = "idle"
  /\ options = NoOptions
  /\ files = << >>
  /\ classified = << >>
  /\ overrideMods = << >>
  /\ scanFailed = FALSE
  /\ manifest = NoManifest

\* the state of sftp.js compareMods and deployMods: the mods directory of
\* the build and of the server, the comparison, the place in the loops and
\* the remote calls made
VARIABLES
  localMods,     \* the local mods directory: file name -> size
  remoteMods,    \* the remote mods directory: file name -> size
  remoteModsDir, \* whether the remote mods directory exists
  mpc,           \* "idle", "start", "compared", "upload", "delete", "done"
                 \* or "thrown"
  comparison,    \* the result of compareMods
  mi,            \* the place in the running loop of deployMods
  mlog,          \* the mkdir, put and delete calls made, in order
  mfaults        \* the remote calls that have failed

mvars == <<localMods, remoteMods, remoteModsDir, mpc, comparison, mi, mlog,
           mfaults>>

\* compareMods has not run
NoComparison == [toUpload |-> << >>, toDelete |-> << >>, unchanged |-> << >>]

\* no mods deployment is running
ModsIdle ==
  /\ localMods = << >>
  /\ remoteMods = << >>
  /\ remoteModsDir = FALSE
  /\ mpc = "idle"
  /\ comparison = NoComparison
  /\ mi = 1
  /\ mlog = << >>
  /\ mfaults = 0

\* the state of instance.js downloadServerMods: the mods to download, the
\* cache directory, the mods directory of the server, the loop and its
\* outcome
VARIABLES
  serverMods,    \* the mods passed to downloadServerMods, in order
  cache,         \* the cache directory: name of the entry -> content
  serverModsDir, \* the mods directory of the server: file name -> content
  cpc,           \* "idle", "loop" or "returned"
  ci,            \* the place in the loop over serverMods
  errors,        \* the file names pushed to `errors`, in order
  summary        \* the object downloadServerMods returns

cvars == <<serverMods, cache, serverModsDir, cpc, ci, errors, summary>>

\* downloadServerMods has not returned
NoSummary == [success |-> 0, failed |-> 0, returned |-> FALSE]

\* no download is running
CacheIdle ==
  /\ serverMods = << >>
  /\ cache = << >>
  /\ serverModsDir = << >>
  /\ cpc = "idle"
  /\ ci = 1
  /\ errors = << >>
  /\ summary = NoSummary

Sizes == 1..MaxSize

\* every file tree over the paths of S
Trees(S) == [S -> Sizes]

Init ==
  /\ \E L \in SUBSET FilePaths, R \in SUBSET FilePaths :
       /\ Cardinality(L) + Cardinality(R) <= MaxFiles
       /\ local \in Trees(L)
       /\ remoteFiles \in Trees(R)
       \* a remote file lies in existing directories; with no file the
       \* remote root may or may not exist yet
       /\ remoteDirs \in {AncestorsOfAll(R), AncestorsOfAll(R) \cup {Root}}
  /\ remote0 = remoteFiles
  /\ skipLibraries = FALSE
  /\ autoConfirm = FALSE
  /\ pc = "start"
  /\ connOpen = FALSE
  /\ items = << >>
  /\ analysis = NoPlan
  /\ statFail = {}
  /\ listFail = {}
  /\ di = 1
  /\ ui = 1
  /\ log = << >>
  /\ faults = 0
  /\ result = "none"
  /\ replan = NoPlan
  /\ confirmed = "notAsked"
  /\ IndexIdle
  /\ PackIdle
  /\ ModsIdle
  /\ CacheIdle

(* ------------------------------ deploy() --------------------------------- *)
\* one entry of the log of remote calls
Call(op, path, ok) == [op |-> op, path |-> path, ok |-> ok]

\* Return with a slip: the connection is not closed on the way out
ReturnNoFinally(r) ==
  /\ pc' = "done"
  /\ result' = r
  /\ UNCHANGED connOpen

\* deploy() ends: the `finally` closes the connection, then the function
\* returns r, or the outer catch exits with code 1
Return(r) ==
  /\ pc' = "done"
  /\ result' = r
  /\ connOpen' = FALSE

\* hasChanges with a slip: protected files count as changes
hasChangesOrProtected(an) ==
  Len(an.toUpload) > 0 \/ Len(an.toDelete) > 0 \/ Len(an.protected) > 0

\* hasChanges of deploy()
hasChanges(an) == Len(an.toUpload) > 0 \/ Len(an.toDelete) > 0

\* what deploy() does once the deletions are over: the upload loop, or the
\* successful end when there is nothing to upload
StepAfterDeletes(an) ==
  IF Len(an.toUpload) > 0 THEN "upload" ELSE "success"

\* StepAfterRoot with a slip: the deletion loop is left out
StepAfterRootNoDeletes(an) == StepAfterDeletes(an)

\* what deploy() does once the remote root is ensured: deletions first
StepAfterRoot(an) ==
  IF Len(an.toDelete) > 0 THEN "delete" ELSE StepAfterDeletes(an)

\* StepAfterDelete with a slip: a failed delete is thrown, not caught
StepAfterDeleteThrown(ok, last, an) ==
  IF ~ok THEN "exit1" ELSE IF last THEN StepAfterDeletes(an) ELSE "delete"

\* where the deletion loop goes after one sftp.delete: its try/catch only
\* warns, so the outcome ok of the call plays no part
StepAfterDelete(ok, last, an) ==
  IF last THEN StepAfterDeletes(an) ELSE "delete"

\* StepAfterPut with a slip: a failed put is skipped like a failed delete
StepAfterPutSkipped(putOk, last) ==
  IF last THEN "success" ELSE "upload"

\* where the upload loop goes after one sftp.put: a failure is thrown to
\* the outer catch
StepAfterPut(putOk, last) ==
  IF ~putOk THEN "exit1" ELSE IF last THEN "success" ELSE "upload"

\* continue deploy() at step, which may be its successful end or the outer
\* catch (process.exit(1))
Continue(step) ==
  IF step = "success"
    THEN Return("true")
    ELSE IF step = "exit1"
      THEN Return("exit1")
      ELSE pc' = step /\ UNCHANGED <<result, connOpen>>

\* parseArgs, the check of releases/server, loadSFTPConfig and connectSFTP.
\* A failure of one of the last three is thrown to the outer catch before
\* any connection exists.
Start ==
  /\ pc = "start"
  /\ \E yes \in BOOLEAN, skip \in BOOLEAN :
       autoConfirm' = yes /\ skipLibraries' = skip
  /\ \/ pc' = "connected" /\ connOpen' = TRUE /\ UNCHANGED result
     \/ pc' = "done" /\ result' = "exit1" /\ UNCHANGED connOpen
  /\ UNCHANGED <<ivars, pvars, mvars, cvars, confirmed, local, remoteFiles, remoteDirs, remote0, items, analysis,
                 statFail, listFail, di, ui, log, faults, replan>>

\* the paths an analysis stats that are there, so that a throwing stat is a
\* failure of the call and not the answer "absent"
StatTargets(its, skipLib) ==
  ({ it.name : it \in { x \in Range(its) : x.type = "file" } }
     \cup { <<d>> : d \in Range(exactSyncDirs(skipLib)) })
  \cap ((DOMAIN remoteFiles) \cup remoteDirs)

\* the directories an analysis lists
ListTargets(skipLib) ==
  { <<d>> : d \in Range(exactSyncDirs(skipLib)) } \cap remoteDirs

\* scanServerDirectory and analyzeDeployment (the stat of the remote root
\* before them only prints)
Analyze ==
  /\ pc = "connected"
  /\ LET its == scanServerDirectory(local, skipLibraries)
     IN  \E sf \in SUBSET StatTargets(its, skipLibraries),
            lf \in SUBSET ListTargets(skipLibraries) :
           /\ faults + Cardinality(sf) + Cardinality(lf) <= MaxFaults
           /\ lf \cap sf = {}
           /\ items' = its
           /\ analysis' = analyzeDeployment(its, remoteFiles, remoteDirs,
                                            sf, lf, skipLibraries)
           /\ statFail' = sf
           /\ listFail' = lf
           /\ faults' = faults + Cardinality(sf) + Cardinality(lf)
  /\ pc' = "planned"
  /\ UNCHANGED <<ivars, pvars, mvars, cvars, confirmed, local, remoteFiles, remoteDirs, remote0, skipLibraries,
                 autoConfirm, connOpen, di, ui, log, result, replan>>

\* scanServerDirectory throws (a readdir or a stat of the local tree
\* fails): the analysis error leaves the inner try for the outer catch
ScanFails ==
  /\ pc = "connected"
  /\ Return("exit1")
  /\ UNCHANGED <<ivars, pvars, mvars, cvars, confirmed, local, remoteFiles, remoteDirs,
                 remote0, skipLibraries, autoConfirm, items, analysis,
                 statFail, listFail, di, ui, log, faults, replan>>

\* the lines the operator may type at the prompt
Answers == {"yes", "YES", "Yes", "y", "no", ""}

\* String.prototype.toLowerCase on the answers
toLowerCase(s) == IF s \in {"YES", "Yes"} THEN "yes" ELSE s

\* askConfirmation: what the promise resolves to for the typed answer
askConfirmation(answer) == toLowerCase(answer) = "yes"

\* StepAfterAnswer with a slip: the answer is not looked at
StepAfterAnswerIgnored(ok) == "ensureRoot"

\* `if (!confirmed) return false`: where deploy() goes after the prompt
StepAfterAnswer(ok) == IF ok THEN "ensureRoot" ELSE "cancelled"

\* the prompt of deploy(): the operator types an answer
Confirm ==
  /\ pc = "planned"
  /\ hasChanges(analysis) /\ ~autoConfirm
  /\ \E answer \in Answers :
       LET ok == askConfirmation(answer)
       IN  /\ confirmed' = (IF ok THEN "yes" ELSE "no")
           /\ IF StepAfterAnswer(ok) = "cancelled"
                THEN Return("false")
                ELSE pc' = StepAfterAnswer(ok) /\ UNCHANGED <<result, connOpen>>
  /\ UNCHANGED <<ivars, pvars, mvars, cvars, local, remoteFiles, remoteDirs, remote0, skipLibraries,
                 autoConfirm, items, analysis, statFail, listFail, di, ui,
                 log, faults, replan>>

\* -y: no question is asked
AutoConfirm ==
  /\ pc = "planned"
  /\ autoConfirm /\ hasChanges(analysis)
  /\ pc' = "ensureRoot"
  /\ UNCHANGED <<ivars, pvars, mvars, cvars, confirmed, local, remoteFiles, remoteDirs, remote0, skipLibraries,
                 autoConfirm, connOpen, items, analysis, statFail, listFail,
                 di, ui, log, faults, result, replan>>

\* "No changes needed": deploy() returns true at once
NoChanges ==
  /\ pc = "planned"
  /\ ~hasChanges(analysis)
  /\ Return("true")
  /\ UNCHANGED <<ivars, pvars, mvars, cvars, confirmed, local, remoteFiles, remoteDirs, remote0, skipLibraries,
                 autoConfirm, items, analysis, statFail, listFail, di, ui,
                 log, faults, replan>>

\* ensureRemoteDir(remotePath): every way the call can go when at most
\* budget more calls may fail.  The stat may throw although the directory
\* is there, which getRemoteFileInfo reads as "not there"; the mkdir may
\* fail, and then ensureRemoteDir throws (ok is FALSE).  dirs is the set of
\* remote directories after the call, calls what it adds to the log.
ensureRemoteDir(rf, rd, remotePath, budget) ==
  { o \in
      { LET sf   == IF statThrows THEN {remotePath} ELSE {}
            info == getRemoteFileInfo(rf, rd, sf, remotePath)
            cost == (IF statThrows THEN 1 ELSE 0)
                      + (IF ~info.exists /\ ~mkdirOk THEN 1 ELSE 0)
        IN  IF info.exists
              THEN [ok |-> TRUE, dirs |-> rd, cost |-> cost,
                    calls |-> <<Call("ensureRemoteDir", remotePath, TRUE)>>]
              ELSE IF mkdirOk
                THEN [ok |-> TRUE, cost |-> cost,
                      dirs |-> rd \cup {remotePath} \cup Ancestors(remotePath),
                      calls |-> <<Call("mkdir", remotePath, TRUE),
                                  Call("ensureRemoteDir", remotePath, TRUE)>>]
                ELSE [ok |-> FALSE, dirs |-> rd, cost |-> cost,
                      calls |-> <<Call("mkdir", remotePath, FALSE),
                                  Call("ensureRemoteDir", remotePath, FALSE)>>]
        : statThrows \in {st \in BOOLEAN : st => remotePath \in rd},
          mkdirOk \in BOOLEAN } :
      o.cost <= budget }

\* "Ensure remote directory exists"
EnsureRoot ==
  /\ pc = "ensureRoot"
  /\ \E o \in ensureRemoteDir(remoteFiles, remoteDirs, Root, MaxFaults - faults) :
       /\ remoteDirs' = o.dirs
       /\ log' = log \o o.calls
       /\ faults' = faults + o.cost
       /\ IF o.ok THEN Continue(StepAfterRoot(analysis)) ELSE Return("exit1")
  /\ UNCHANGED <<ivars, pvars, mvars, cvars, confirmed, local, remoteFiles, remote0, skipLibraries, autoConfirm,
                 items, analysis, statFail, listFail, di, ui, replan>>

\* rf without the file p
Without(rf, p) == [q \in (DOMAIN rf) \ {p} |-> rf[q]]

\* one turn of the deletion loop: sftp.delete, a failure only warned about
DeleteNext ==
  /\ pc = "delete"
  /\ LET item == analysis.toDelete[di]
     IN  \E ok \in BOOLEAN :
           /\ IF ok
                THEN /\ remoteFiles' = Without(remoteFiles, item.remotePath)
                     /\ faults' = faults
                ELSE /\ faults < MaxFaults
                     /\ remoteFiles' = remoteFiles
                     /\ faults' = faults + 1
           /\ log' = Append(log, Call("delete", item.remotePath, ok))
           /\ Continue(StepAfterDelete(ok, di = Len(analysis.toDelete),
                                       analysis))
  /\ di' = di + 1
  /\ UNCHANGED <<ivars, pvars, mvars, cvars, confirmed, local, remoteDirs, remote0, skipLibraries, autoConfirm,
                 items, analysis, statFail, listFail, ui, replan>>

\* one turn of the upload loop: "Ensure parent directory exists", then
\* sftp.put.  A failure of either is thrown to the outer catch.
UploadNext ==
  /\ pc = "upload"
  /\ LET item      == analysis.toUpload[ui]
         parentDir == dirname(item.name)
     IN  \E o \in ensureRemoteDir(remoteFiles, remoteDirs, parentDir,
                                  MaxFaults - faults) :
           /\ remoteDirs' = o.dirs
           /\ IF ~o.ok
                THEN /\ log' = log \o o.calls
                     /\ faults' = faults + o.cost
                     /\ remoteFiles' = remoteFiles
                     /\ ui' = ui
                     /\ Return("exit1")
                ELSE \E putOk \in BOOLEAN :
                       LET step == StepAfterPut(putOk,
                                                ui = Len(analysis.toUpload))
                       IN  /\ log' = log \o o.calls
                                       \o <<Call("put", item.name, putOk)>>
                           /\ IF putOk
                                THEN /\ remoteFiles' =
                                          (item.name :> item.size)
                                            @@ remoteFiles
                                     /\ faults' = faults + o.cost
                                ELSE /\ faults + o.cost < MaxFaults
                                     /\ remoteFiles' = remoteFiles
                                     /\ faults' = faults + o.cost + 1
                           /\ ui' = (IF step = "exit1" THEN ui ELSE ui + 1)
                           /\ Continue(step)
  /\ UNCHANGED <<ivars, pvars, mvars, cvars, confirmed, local, remote0, skipLibraries, autoConfirm, items, analysis,
                 statFail, listFail, di, replan>>

\* a second run of deploy() right after a successful one, up to its plan:
\* same local tree, same flags
Replan ==
  /\ pc = "done" /\ result = "true"
  /\ LET its == scanServerDirectory(local, skipLibraries)
     IN  \E sf \in SUBSET StatTargets(its, skipLibraries),
            lf \in SUBSET ListTargets(skipLibraries) :
           /\ faults + Cardinality(sf) + Cardinality(lf) <= MaxFaults
           /\ lf \cap sf = {}
           /\ replan' = analyzeDeployment(its, remoteFiles, remoteDirs,
                                          sf, lf, skipLibraries)
           /\ faults' = faults + Cardinality(sf) + Cardinality(lf)
  /\ pc' = "replanned"
  /\ UNCHANGED <<ivars, pvars, mvars, cvars, confirmed, local, remoteFiles, remoteDirs, remote0, skipLibraries,
                 autoConfirm, connOpen, items, analysis, statFail, listFail,
                 di, ui, log, result>>

Next ==
  \/ Start
  \/ ScanFails
  \/ Analyze
  \/ Confirm
  \/ AutoConfirm
  \/ NoChanges
  \/ EnsureRoot
  \/ DeleteNext
  \/ UploadNext
  \/ Replan

Spec == Init /\ [][Next]_vars

\* deploy() is not running
DeployIdle ==
  /\ local = << >> /\ remoteFiles = << >> /\ remoteDirs = {}
  /\ remote0 = << >>
  /\ skipLibraries = FALSE /\ autoConfirm = FALSE
  /\ pc = "idle" /\ connOpen = FALSE
  /\ items = << >> /\ analysis = NoPlan
  /\ statFail = {} /\ listFail = {}
  /\ di = 1 /\ ui = 1
  /\ log = << >> /\ faults = 0
  /\ result = "none" /\ replan = NoPlan
  /\ confirmed = "notAsked"

(* ------------------------------ properties ------------------------------- *)
\* what getRemoteFileInfo answered for the file item it during the analysis
\* (evaluated in the state that follows the analysis, before any remote
\* change)
InfoOf(it) == getRemoteFileInfo(remoteFiles, remoteDirs, statFail, it.name)

\* the scanned items that are files
FileItems == { it \in Range(items) : it.type = "file" }

\* the names the code treats as exact-mirror top-level directories
ExactMirrorDirs == {"mods", "libraries", "kubejs", "configureddefaults"}

\* C1: in the plan returned by analyzeDeployment, no path listed in
\* `protected` is also listed in `toUpload` or in `toDelete` (for the plan
\* of the run and for the plan of a replanning alike).
C1_ProtectedDisjoint ==
  /\ Names(analysis.protected)
       \cap (Names(analysis.toUpload) \cup Names(analysis.toDelete)) = {}
  /\ Names(replan.protected)
       \cap (Names(replan.toUpload) \cup Names(replan.toDelete)) = {}

\* C1 witness: a plan protects a file below the exact-mirror directory mods
\* whose local size differs from the remote size, the file that would be
\* uploaded but for its protection.
C1_Witness ==
  /\ pc = "planned"
  /\ \E i \in 1..Len(analysis.protected) :
       /\ analysis.protected[i].name[1] = "mods"
       /\ remoteFiles[analysis.protected[i].name] # analysis.protected[i].size

\* C2 (as claimed): a server-management file at the server root that was on
\* the remote before the run is never the target of a successful put and
\* never of a successful delete, whatever the stat calls answer.
C2_ManagementFileUntouched ==
  \A i \in 1..Len(log) :
    (log[i].ok /\ log[i].op \in {"put", "delete"})
      => ~( /\ Len(log[i].path) = 1
            /\ basename(log[i].path) \in protectedFiles
            /\ log[i].path \in DOMAIN remote0 )

\* C3: a local file with a protected name, for which the remote answered
\* that its counterpart exists, is in `protected` and not in `toUpload`,
\* whatever the two sizes.
C3_ProtectedPrecedence ==
  pc = "planned" =>
    \A it \in FileItems :
      (basename(it.name) \in protectedFiles /\ InfoOf(it).exists)
        => /\ it \in Range(analysis.protected)
           /\ it \notin Range(analysis.toUpload)

\* C3 witness: a plan in which a protected-name file exists on the remote
\* with a size that differs from the local size.
C3_Witness ==
  /\ pc = "planned"
  /\ \E it \in FileItems :
       /\ basename(it.name) \in protectedFiles
       /\ InfoOf(it).exists
       /\ InfoOf(it).size # it.size
       /\ it \in Range(analysis.protected)

\* C4: every entry of `toDelete` is a direct path below one of mods,
\* libraries, kubejs, configureddefaults, no local file exists at it, and
\* the executor deletes nothing outside these directories.
C4_DeleteScope ==
  /\ \A i \in 1..Len(analysis.toDelete) :
       /\ Len(analysis.toDelete[i].name) > 1
       /\ analysis.toDelete[i].name[1] \in ExactMirrorDirs
       /\ analysis.toDelete[i].name \notin DOMAIN local
       /\ analysis.toDelete[i].remotePath = analysis.toDelete[i].name
  /\ \A i \in 1..Len(log) :
       log[i].op = "delete" =>
         /\ Len(log[i].path) > 1
         /\ log[i].path[1] \in ExactMirrorDirs
         /\ log[i].path \notin DOMAIN local

\* C4 witness: a run has deleted a remote file while an upload-only
\* directory of the remote holds a file that has no local counterpart.
C4_Witness ==
  /\ pc = "done"
  /\ \E i \in 1..Len(log) : log[i].op = "delete" /\ log[i].ok
  /\ \E p \in DOMAIN remoteFiles : p[1] = "world" /\ p \notin DOMAIN local

\* C5 (as claimed): when every stat and list call of the analysis answers,
\* every remote regular file below an exact-mirror directory of the pass,
\* at any depth, with no local file at the same relative path, is in
\* `toDelete`.
C5_MirrorDeletesAll ==
  (pc = "planned" /\ statFail = {} /\ listFail = {}) =>
    \A p \in DOMAIN remoteFiles :
      (p[1] \in Range(exactSyncDirs(skipLibraries)) /\ p \notin DOMAIN local)
        => p \in Names(analysis.toDelete)

\* C6: a local file that is not classified protected is in `toUpload`
\* exactly if the remote answered that the file is absent or reported a
\* size other than the local size; otherwise it is in `unchanged`.
C6_UploadIff ==
  pc = "planned" =>
    \A it \in FileItems :
      it \notin Range(analysis.protected) =>
        /\ it \in Range(analysis.toUpload)
             <=> (~InfoOf(it).exists \/ InfoOf(it).size # it.size)
        /\ it \notin Range(analysis.toUpload)
             <=> it \in Range(analysis.unchanged)

\* C6 witness: one plan uploads a file because of its size alone.
C6_Witness ==
  /\ pc = "planned"
  /\ \E it \in FileItems :
       /\ it \in Range(analysis.toUpload)
       /\ InfoOf(it).exists
       /\ InfoOf(it).size # it.size

\* C7 (as claimed): replanning right after a run that returned success,
\* with the same local tree, gives empty `toUpload` and `toDelete`.  The
\* formula considers only the runs and replannings in which every stat and
\* list call of both analyses answered.
C7_ReplanEmpty ==
  ( /\ pc = "replanned"
    /\ statFail = {} /\ listFail = {}
    /\ replan = analyzeDeployment(items, remoteFiles, remoteDirs, {}, {},
                                  skipLibraries) )
    => (replan.toUpload = << >> /\ replan.toDelete = << >>)

\* the remote answered, for every file, what the local tree holds
RemoteListingEqualsLocal ==
  /\ remoteFiles = local
  /\ statFail \cap DOMAIN local = {}

\* C8 (as claimed): when the remote listing equals the local tree, the plan
\* has empty `toUpload` and `toDelete` and every scanned file is in
\* `unchanged`.
C8_EqualTreesAllUnchanged ==
  (pc = "planned" /\ RemoteListingEqualsLocal) =>
    /\ analysis.toUpload = << >>
    /\ analysis.toDelete = << >>
    /\ FileItems \subseteq Range(analysis.unchanged)

\* C8 (amended): when the remote listing equals the local tree, the plan
\* has empty `toUpload` and `toDelete`, every scanned file with a protected
\* name is in `protected` and every other scanned file is in `unchanged`.
C8_EqualTreesNothingToDo ==
  (pc = "planned" /\ RemoteListingEqualsLocal) =>
    /\ analysis.toUpload = << >>
    /\ analysis.toDelete = << >>
    /\ \A it \in FileItems :
         IF basename(it.name) \in protectedFiles
           THEN it \in Range(analysis.protected)
           ELSE it \in Range(analysis.unchanged)

\* C8 witness: equal trees that hold a protected-name file below the
\* exact-mirror directory mods, planned.
C8_Witness ==
  /\ pc = "planned"
  /\ RemoteListingEqualsLocal
  /\ \E it \in FileItems :
       it.name[1] = "mods" /\ it \in Range(analysis.protected)

\* C9: with --skip-libraries no path equal to or below `libraries` is in
\* any list of the plan, and the run makes no remote call on such a path.
C9_LibrariesSkipped ==
  skipLibraries =>
    /\ \A n \in Names(analysis.toUpload) \cup Names(analysis.toDelete)
                  \cup Names(analysis.unchanged) \cup Names(analysis.protected) :
         n[1] # "libraries"
    /\ \A i \in 1..Len(log) :
         Len(log[i].path) > 0 => log[i].path[1] # "libraries"

\* C9 witness: a run with --skip-libraries has changed the remote while a
\* libraries file exists on one side only.
C9_Witness ==
  /\ skipLibraries
  /\ pc = "done" /\ result = "true"
  /\ \E i \in 1..Len(log) : log[i].ok /\ log[i].op \in {"put", "delete"}
  /\ \E p \in (DOMAIN local \cup DOMAIN remoteFiles)
               \ (DOMAIN local \cap DOMAIN remoteFiles) : p[1] = "libraries"

\* the positions of the log before position i that are deletions
DeletesBefore(i) == { j \in 1..(i - 1) : log[j].op = "delete" }

\* C10: the first remote call of the execution ensures the remote root;
\* when the first upload begins every entry of `toDelete` has been
\* attempted and no deletion follows; the call before each put is the
\* successful ensureRemoteDir of its parent directory.
C10_ExecutionOrder ==
  /\ log # << >> => (log[1].path = Root /\ log[1].op \in {"ensureRemoteDir", "mkdir"})
  /\ \A i \in 1..Len(log) :
       log[i].op = "put" =>
         /\ { log[j].path : j \in DeletesBefore(i) }
              = { analysis.toDelete[k].remotePath :
                    k \in 1..Len(analysis.toDelete) }
         /\ Cardinality(DeletesBefore(i)) = Len(analysis.toDelete)
         /\ \A j \in (i + 1)..Len(log) : log[j].op # "delete"
         /\ i > 1
         /\ log[i - 1] = Call("ensureRemoteDir", dirname(log[i].path), TRUE)

\* C10 witness: a finished run that deleted and uploaded.
C10_Witness ==
  /\ pc = "done"
  /\ \E i \in 1..Len(log) : log[i].op = "delete"
  /\ \E i \in 1..Len(log) : log[i].op = "put"

\* the remote calls of the log that change the remote host when they succeed
MutatingOps == {"mkdir", "delete", "put"}

\* C11: deploy() makes no remote delete, upload or directory creation
\* unless the operator has confirmed or the auto-confirm flag is set; when
\* the operator declines, the run ends (deploy() returns false) and the
\* remote filesystem is as it was: no remote call was made at all.
C11_ConfirmationGate ==
  /\ (\E i \in DOMAIN log : log[i].op \in MutatingOps)
       => (autoConfirm \/ confirmed = "yes")
  /\ confirmed = "no"
       => /\ pc = "done" /\ result = "false"
          /\ log = << >>
          /\ remoteFiles = remote0

\* C11 witness: the operator was shown a plan with a deletion and an upload
\* and declined it
C11_Witness ==
  /\ confirmed = "no" /\ pc = "done"
  /\ Len(analysis.toDelete) > 0 /\ Len(analysis.toUpload) > 0

\* C12: when the plan has no changes (toUpload and toDelete both empty), the
\* step deploy() takes from the plan asks no confirmation, makes no remote
\* call, leaves the remote host as it is and returns true, whatever the
\* auto-confirm flag.
C12_NoChangesNoOp ==
  [][ (pc = "planned" /\ Len(analysis.toUpload) = 0
                      /\ Len(analysis.toDelete) = 0)
        => /\ pc' = "done" /\ result' = "true"
           /\ confirmed' = "notAsked"
           /\ log' = << >>
           /\ remoteFiles' = remoteFiles /\ remoteDirs' = remoteDirs ]_vars

\* C12 witness: a run with -y over a non-empty local tree found nothing to
\* change and ended successfully without a remote call
C12_Witness ==
  /\ pc = "done" /\ result = "true" /\ autoConfirm
  /\ DOMAIN local # {}
  /\ Len(analysis.toUpload) = 0 /\ Len(analysis.toDelete) = 0
  /\ Len(analysis.protected) > 0
  /\ log = << >> /\ confirmed = "notAsked"

\* the calls of the log made with the operation op, in order
CallsOf(op) == SelectSeq(log, LAMBDA c : c.op = op)

\* the paths of a sequence of calls
PathsOf(calls) == [i \in 1..Len(calls) |-> calls[i].path]

\* some call of the log with an operation of ops failed
SomeFailed(ops) == \E i \in 1..Len(log) : log[i].op \in ops /\ ~log[i].ok

\* C13: once a remote delete has failed, the deletion loop still goes on:
\* the deletions attempted are the entries of toDelete in order, all of them
\* when the loop is over; the run only ends with exit code 1 when an upload
\* or a directory creation failed, and when none did it returns true after
\* attempting every entry of toUpload in order.
C13_DeleteFailureSkipped ==
  SomeFailed({"delete"}) =>
    /\ pc \in {"delete", "upload", "done", "replanned"}
    /\ PathsOf(CallsOf("delete"))
         = [k \in 1..(IF pc = "delete" THEN di - 1 ELSE Len(analysis.toDelete))
              |-> analysis.toDelete[k].remotePath]
    /\ result = "exit1" => SomeFailed({"put", "mkdir"})
    /\ (pc \in {"done", "replanned"} /\ ~SomeFailed({"put", "mkdir"}))
         => /\ result = "true"
            /\ PathsOf(CallsOf("put"))
                 = [k \in 1..Len(analysis.toUpload) |-> analysis.toUpload[k].name]

\* C13 witness: a run whose delete failed, which then uploaded a file and
\* returned true
C13_Witness ==
  /\ pc = "done" /\ result = "true"
  /\ \E i \in 1..Len(log) :
       /\ log[i].op = "delete" /\ ~log[i].ok
       /\ \E j \in (i + 1)..Len(log) : log[j].op = "put" /\ log[j].ok

\* C14: once a put or a mkdir has failed, the run is over with exit code 1,
\* no remote delete, mkdir or put follows the failed call, and what the
\* successful calls before it did is still there: an uploaded file is on the
\* remote with its local size, a deleted file is absent, a created
\* directory exists.
C14_UploadFailureAborts ==
  \A i \in 1..Len(log) :
    (log[i].op \in {"put", "mkdir"} /\ ~log[i].ok) =>
      /\ pc = "done" /\ result = "exit1"
      /\ \A j \in (i + 1)..Len(log) : log[j].op \notin MutatingOps
      /\ \A j \in 1..(i - 1) :
           log[j].ok =>
             CASE log[j].op = "put" ->
                    /\ log[j].path \in DOMAIN remoteFiles
                    /\ remoteFiles[log[j].path] = local[log[j].path]
               [] log[j].op = "delete" -> log[j].path \notin DOMAIN remoteFiles
               [] log[j].op = "mkdir" -> log[j].path \in remoteDirs
               [] OTHER -> TRUE

\* C14 witness: the first of two uploads failed; the second was never tried
\* and the process exit code is 1
C14_Witness ==
  /\ pc = "done" /\ result = "exit1"
  /\ Len(analysis.toUpload) = 2
  /\ Len(CallsOf("put")) = 1
  /\ ~CallsOf("put")[1].ok

(* ---------------- the index check of build-server.js and sync.js --------- *)
\* the names the descriptors and binaries of the model are drawn from
ModNames == {"a.jar", "b.jar", "c.jar"}

\* the binary of the mod n in the mods directory: n, or n + ".disabled"
Binary(n, dis) == [base |-> n, disabled |-> dis]

\* missingIndexes of verifyModIndexes: the binaries whose name, with a
\* trailing ".disabled" removed, is the filename of no descriptor
missingIndexes(mf, ix) == { f \in mf : f.base \notin ix }

\* missingFiles of verifyModIndexes: the descriptors whose filename is in
\* the mods directory neither as it is nor with ".disabled"
missingFiles(mf, ix) ==
  { n \in ix : Binary(n, FALSE) \notin mf /\ Binary(n, TRUE) \notin mf }

\* what verifyModIndexes prints before it throws: the descriptors without
\* a binary when there are any, else the binaries without a descriptor
verifyModIndexes(mf, ix) ==
  IF missingFiles(mf, ix) # {}
    THEN [files |-> {}, indexes |-> missingFiles(mf, ix), printed |-> TRUE]
    ELSE IF missingIndexes(mf, ix) # {}
      THEN [files |-> missingIndexes(mf, ix), indexes |-> {},
            printed |-> TRUE]
      ELSE NoReport

\* indexedMods of scanModsAndIndex: for each descriptor the enabled binary
\* when it is there, else the disabled one when that is there
indexedMods(mf, ix) ==
  { Binary(n, FALSE) : n \in { m \in ix : Binary(m, FALSE) \in mf } }
    \cup { Binary(n, TRUE) :
             n \in { m \in ix : /\ Binary(m, FALSE) \notin mf
                                /\ Binary(m, TRUE) \in mf } }

\* missingIndexFiles of scanModsAndIndex
missingIndexFiles(mf, ix) == mf \ indexedMods(mf, ix)

\* the instance before a build: a mod has no binary, an enabled or a
\* disabled one; .index lies in the mods directory
IndexInit ==
  /\ program = "none" /\ ipc = "start"
  /\ modsDirExists \in BOOLEAN
  /\ indexDirExists \in {b \in BOOLEAN : b => modsDirExists}
  /\ \E f \in [ModNames -> {"none", "jar", "disabled"}] :
       /\ modFiles = { Binary(n, f[n] = "disabled") :
                         n \in { m \in ModNames : f[m] # "none" } }
       /\ modsDirExists \/ modFiles = {}
  /\ indexFiles \in {ix \in SUBSET ModNames : indexDirExists \/ ix = {}}
  /\ buildDir \in {"absent", "stale"}
  /\ buildDir0 = buildDir
  /\ assets = "old"
  /\ report = NoReport
  /\ exitCode = "none"
  /\ DeployIdle
  /\ PackIdle
  /\ ModsIdle
  /\ CacheIdle

\* the process ends with an uncaught error or process.exit(1): "aborted"
\* before the mods directory was compared with the index, "failed" by the
\* comparison
IndexFail(rep) ==
  /\ ipc' = (IF rep.printed THEN "failed" ELSE "aborted")
  /\ report' = rep
  /\ exitCode' = "exit1"

\* build-server.js: new ServerBuilder(...), whose constructor removes the
\* staging directory and creates it again
ServerConstruct ==
  /\ program = "none" /\ ipc = "start"
  /\ program' = "server"
  /\ buildDir' = "fresh"
  /\ ipc' = "constructed"
  /\ UNCHANGED <<modsDirExists, indexDirExists, modFiles, indexFiles,
                 buildDir0, assets, report, exitCode>>
  /\ UNCHANGED <<vars, pvars, mvars, cvars>>

\* ServerBuilder.scanModsDirectory, its first statement: verifyModIndexes.
\* scanModIndex throws when .index is missing, scanModDirectory when the
\* mods directory is.
ServerVerify ==
  /\ program = "server" /\ ipc = "constructed"
  /\ IF ~indexDirExists \/ ~modsDirExists
       THEN IndexFail(NoReport)
       ELSE LET rep == verifyModIndexes(modFiles, indexFiles)
            IN  IF rep.printed
                  THEN IndexFail(rep)
                  ELSE ipc' = "verified" /\ UNCHANGED <<report, exitCode>>
  /\ UNCHANGED <<program, modsDirExists, indexDirExists, modFiles,
                 indexFiles, buildDir, buildDir0, assets>>
  /\ UNCHANGED <<vars, pvars, mvars, cvars>>

\* the rest of build-server.js: the staging directory is filled
ServerBuild ==
  /\ program = "server" /\ ipc = "verified"
  /\ buildDir' = "built"
  /\ ipc' = "done"
  /\ exitCode' = "exit0"
  /\ UNCHANGED <<program, modsDirExists, indexDirExists, modFiles,
                 indexFiles, buildDir0, assets, report>>
  /\ UNCHANGED <<vars, pvars, mvars, cvars>>

\* sync.js main up to the check of missingIndexFiles: readInstanceConfig
\* or validateLoader may throw; scanModsAndIndex throws when a directory
\* is missing; a non-empty missingIndexFiles is printed before exit(1)
SyncScan ==
  /\ program = "none" /\ ipc = "start"
  /\ program' = "sync"
  /\ \E configOk \in BOOLEAN :
       IF ~configOk \/ ~modsDirExists \/ ~indexDirExists
         THEN IndexFail(NoReport)
         ELSE LET missing == missingIndexFiles(modFiles, indexFiles)
              IN  IF missing # {}
                    THEN IndexFail([files |-> missing, indexes |-> {},
                                    printed |-> TRUE])
                    ELSE ipc' = "scanned" /\ UNCHANGED <<report, exitCode>>
  /\ UNCHANGED <<modsDirExists, indexDirExists, modFiles, indexFiles,
                 buildDir, buildDir0, assets>>
  /\ UNCHANGED <<vars, pvars, mvars, cvars>>

\* sync.js main: cleanAssetDirectories('metadata')
SyncClean ==
  /\ program = "sync" /\ ipc = "scanned"
  /\ assets' = "removed"
  /\ ipc' = "cleaned"
  /\ UNCHANGED <<program, modsDirExists, indexDirExists, modFiles,
                 indexFiles, buildDir, buildDir0, report, exitCode>>
  /\ UNCHANGED <<vars, pvars, mvars, cvars>>

\* sync.js main: copyInstanceAssets and generateMetadata; an error of
\* either is caught and ends the process with exit code 1
SyncCopy ==
  /\ program = "sync" /\ ipc = "cleaned"
  /\ \E ok \in BOOLEAN :
       IF ok
         THEN assets' = "copied" /\ ipc' = "done" /\ exitCode' = "exit0"
         ELSE assets' \in {"removed", "copied"}
              /\ ipc' = "crashed" /\ exitCode' = "exit1"
  /\ UNCHANGED <<program, modsDirExists, indexDirExists, modFiles,
                 indexFiles, buildDir, buildDir0, report>>
  /\ UNCHANGED <<vars, pvars, mvars, cvars>>

IndexNext ==
  \/ ServerConstruct
  \/ ServerVerify
  \/ ServerBuild
  \/ SyncScan
  \/ SyncClean
  \/ SyncCopy

IndexSpec == IndexInit /\ [][IndexNext]_ivars

\* the binaries of the mods directory that no descriptor names
OrphanBinaries == { f \in modFiles : \A n \in indexFiles : n # f.base }

\* the descriptors whose binary is not in the mods directory
OrphanDescriptors == { n \in indexFiles : \A f \in modFiles : f.base # n }

\* the check of the mods directory against the index has been made
IndexChecked ==
  ipc \in {"verified", "scanned", "cleaned", "done", "crashed", "failed"}

\* C15: when both directories exist and the mods directory and the index
\* do not match, then once the check has been made the run has failed
\* and the printed report lists exactly the binaries without a descriptor
\* and exactly the descriptors without a binary.
C15_CombinedReport ==
  (/\ modsDirExists /\ indexDirExists
   /\ OrphanBinaries # {} \/ OrphanDescriptors # {}
   /\ IndexChecked)
    => /\ ipc = "failed" /\ exitCode = "exit1"
       /\ report.printed
       /\ report.files = OrphanBinaries
       /\ report.indexes = OrphanDescriptors

\* C16: while a precondition of the build fails (the mods or the index
\* directory is missing, or they do not match), the staging directory is
\* as it was before the run and the asset copies are still the old ones.
C16_NoMutationOnFailure ==
  (\/ ~modsDirExists \/ ~indexDirExists
   \/ OrphanBinaries # {} \/ OrphanDescriptors # {})
    => buildDir = buildDir0 /\ assets = "old"

(* ------------------------- the manifest builders ------------------------- *)
\* the mod filenames of the model, in filename order
PackOrder == <<"a.jar", "b.jar">>

\* `side` of a descriptor; "none" is a descriptor that declares no side
Sides == {"both", "client", "server", "none"}

\* download.mode of a descriptor; "other" is any value but the two the
\* builders know
Modes == {"url", "metadata:curseforge", "other"}

\* how many files the Modrinth API knows for the hash of a binary
ApiHits == {0, 1, 2}

\* size and hashes of a file: those of the binary on disk, or other ones
Metas == {"onDisk", "different"}

\* a mod of the instance: its descriptor, whether its binary is disabled,
\* and for a curseforge descriptor the answer of the Modrinth API to the
\* lookup of its hash: the request fails (apiError), or the version has
\* `hits` files, the first with size and hashes apiMeta
Descriptors ==
  { d \in [side : Sides, disabled : BOOLEAN, mode : Modes, hits : ApiHits,
            apiError : BOOLEAN, apiMeta : Metas] :
      /\ d.mode # "metadata:curseforge" => (d.hits = 0 /\ ~d.apiError)
      /\ d.apiError => d.hits = 0
      /\ d.hits # 1 => d.apiMeta = "onDisk" }

\* common.js getModrinthVersionId: null when the request failed, else the
\* `files` of the answer
getModrinthVersionId(d) ==
  IF d.apiError
    THEN [isNull |-> TRUE, length |-> 0, meta |-> "onDisk"]
    ELSE [isNull |-> FALSE, length |-> d.hits, meta |-> d.apiMeta]

\* becomesOverride with a slip: several files are taken as one
becomesOverrideUnlessSome(apiFiles) ==
  apiFiles.isNull \/ apiFiles.length = 0

\* `!apiFiles || apiFiles.length === 0 || apiFiles.length > 1`
becomesOverride(apiFiles) ==
  apiFiles.isNull \/ apiFiles.length = 0 \/ apiFiles.length > 1

\* the orders in which a directory with the entries of S can be listed
Enumerations(S) ==
  { o \in [1..Cardinality(S) -> S] : \A n \in S : \E i \in DOMAIN o : o[i] = n }

\* common.js isSupported(side, env, optional)
isSupported(side, env, optional) ==
  IF side = "server" /\ env \in {"server", "both"}
    THEN (IF optional THEN "optional" ELSE "required")
    ELSE IF side = "client" /\ env \in {"client", "both"}
      THEN (IF optional THEN "optional" ELSE "required")
      ELSE "unsupported"

\* sideCheck of MrPackBuilder.scanModsDirectory
sideCheck(includeAll, check, stated, dis) ==
  IF ~includeAll \/ check = "server"
    THEN isSupported(check, stated, dis)
    ELSE (IF dis THEN "optional" ELSE "required")

\* scanModIndex: the descriptors of the instance ms, in the order ord in
\* which readdirSync lists .index
scanModIndex(ms, ord) == SelectSeq(ord, LAMBDA n : n \in DOMAIN ms)

\* modFiles of ServerBuilder.scanModsDirectory
serverModFiles(ms, ord) ==
  LET ix == scanModIndex(ms, ord)
  IN  [i \in 1..Len(ix) |->
        [mod |-> ix[i],
         env |-> [client |-> isSupported("client", ms[ix[i]].side,
                                         ms[ix[i]].disabled),
                  server |-> isSupported("server", ms[ix[i]].side,
                                         ms[ix[i]].disabled)],
         isDisabled |-> ms[ix[i]].disabled,
         override |-> FALSE]]

\* serverKeeps with a slip: the server support is not looked at
serverKeepsAnySide(m, opts) == m.mod \notin opts.ignoreMods

\* the filter that gives ServerBuilder its `files`
serverKeeps(m, opts) ==
  IF m.mod \in opts.ignoreMods
    THEN FALSE
    ELSE IF m.env.server # "unsupported"
      THEN TRUE
      ELSE m.mod \in opts.ensureMods

\* modFiles of MrPackBuilder.scanModsDirectory after its first loop; a
\* curseforge mod the API knows no single file for becomes an override
mrpackModFiles(ms, opts, ord) ==
  LET ix == scanModIndex(ms, ord)
      api(n) == getModrinthVersionId(ms[n])
  IN  [i \in 1..Len(ix) |->
        [mod |-> ix[i],
         env |-> [client |-> sideCheck(opts.includeAll, "client",
                                       ms[ix[i]].side, ms[ix[i]].disabled),
                  server |-> sideCheck(opts.includeAll, "server",
                                       ms[ix[i]].side, ms[ix[i]].disabled)],
         isDisabled |-> ms[ix[i]].disabled,
         override |-> (ms[ix[i]].mode = "metadata:curseforge"
                         /\ becomesOverride(api(ix[i]))),
         \* downloads: [modData.download?.url] or [apiFiles[0].url]
         downloads |-> (IF ms[ix[i]].mode = "url"
                          THEN <<"descriptor">> ELSE <<"api">>),
         \* fileSize and hashes: getFileSizeSync, getSha1Sync and
         \* getSha512Sync of the binary, or apiFiles[0].size and .hashes
         meta |-> (IF ms[ix[i]].mode = "url"
                     THEN "onDisk" ELSE api(ix[i]).meta)]]

\* the map over modFiles that applies ignoreMods and then ensureMods; both
\* write env.client only, and ensureOptional is not read
applyRules(m, opts) ==
  LET ignored ==
        IF m.mod \in opts.ignoreMods
          THEN [m EXCEPT !.env.client =
                           IF m.isDisabled THEN "optional" ELSE "unsupported"]
          ELSE m
  IN  IF m.mod \in opts.ensureMods
        THEN [ignored EXCEPT !.env.client =
                               IF m.isDisabled THEN "optional" ELSE "required"]
        ELSE ignored

\* the record of `files` for the entry m of modFiles: isDisabled is
\* stripped (an entry of `files` is no override)
fileRecord(m) ==
  [mod |-> m.mod, env |-> m.env, downloads |-> m.downloads, meta |-> m.meta]

\* mods.js parseIndexFile: the entry of pack.json for a mod
parseIndexFile(n, d) ==
  [mod |-> n,
   side |-> (IF d.side = "none" THEN "both" ELSE d.side),
   disabled |-> d.disabled,
   modrinth |-> (d.mode = "url")]

\* builder.js generateModrinthIndex: the record of one mod
modrinthRecord(m) ==
  [mod |-> m.mod,
   env |-> [client |-> (IF m.side = "both" \/ m.side = "client"
                          THEN "required" ELSE "unsupported"),
            server |-> (IF m.side = "both" \/ m.side = "server"
                          THEN "required" ELSE "unsupported")],
   isDisabled |-> m.disabled,
   override |-> FALSE]

\* `files` of MrPackBuilder: a record for every entry of ms
fileRecords(ms) == [i \in 1..Len(ms) |-> fileRecord(ms[i])]

\* the mods of pack.json for the instance ms
packDataMods(ms, ord) ==
  LET ix == scanModIndex(ms, ord)
  IN  [i \in 1..Len(ix) |-> parseIndexFile(ix[i], ms[ix[i]])]

\* `files` of generateModrinthIndex for the mods ms
modrinthRecords(ms) == [i \in 1..Len(ms) |-> modrinthRecord(ms[i])]

\* an instance whose mods directory and index match: every mod has a
\* descriptor and a binary
PackInit ==
  /\ \E S \in SUBSET Range(PackOrder) : mods \in [S -> Descriptors]
  /\ builder = "none"
  /\ options = NoOptions
  /\ files = << >>
  /\ classified = << >>
  /\ overrideMods = << >>
  /\ scanFailed = FALSE
  /\ manifest = NoManifest
  /\ DeployIdle
  /\ IndexIdle
  /\ ModsIdle
  /\ CacheIdle

\* the binaries of the instance ms as the mods directory lists them
BinariesOf(ms) == { Binary(n, ms[n].disabled) : n \in DOMAIN ms }

\* build-server.js: ServerBuilder.scanModsDirectory, called with patterns
\* that match the mods of ens (ensureMods) and of ign (ignoreMods)
ServerScan ==
  /\ builder = "none"
  /\ builder' = "server"
  /\ \E ens \in SUBSET DOMAIN mods, ign \in SUBSET DOMAIN mods,
        ord \in Enumerations(DOMAIN mods) :
       LET opts == [NoOptions EXCEPT !.ensureMods = ens, !.ignoreMods = ign]
           all  == serverModFiles(mods, ord)
       IN  /\ options' = opts
           /\ IF verifyModIndexes(BinariesOf(mods), DOMAIN mods).printed
                THEN /\ scanFailed' = TRUE
                     /\ UNCHANGED <<classified, files>>
                ELSE /\ scanFailed' = FALSE
                     /\ classified' = all
                     /\ files' = SelectSeq(all, LAMBDA m : serverKeeps(m, opts))
  /\ UNCHANGED <<mods, overrideMods, manifest>>
  /\ UNCHANGED <<vars, ivars, mvars, cvars>>

\* build-mrpack.js: MrPackBuilder.scanModsDirectory, called with patterns
\* that match the mods of ens, ign and opt and with includeAll ia.  A
\* descriptor of another download mode reaches the `else` branch, whose
\* message reads the undeclared `filePath`: a ReferenceError ends the scan.
MrPackScan ==
  /\ builder = "none"
  /\ builder' = "mrpack"
  /\ \E ens \in SUBSET DOMAIN mods, ign \in SUBSET DOMAIN mods,
        opt \in SUBSET DOMAIN mods, ia \in BOOLEAN,
        ord \in Enumerations(DOMAIN mods) :
       LET opts == [ensureMods |-> ens, ignoreMods |-> ign,
                    ensureOptional |-> opt, includeAll |-> ia]
           raw  == mrpackModFiles(mods, opts, ord)
           all  == [i \in 1..Len(raw) |-> applyRules(raw[i], opts)]
       IN  /\ options' = opts
           /\ IF \E n \in DOMAIN mods : mods[n].mode = "other"
                THEN /\ scanFailed' = TRUE
                     /\ UNCHANGED <<classified, files, overrideMods>>
                ELSE /\ scanFailed' = FALSE
                     /\ classified' = all
                     /\ files' =
                          fileRecords(SelectSeq(all, LAMBDA m : ~m.override))
                     /\ overrideMods' = SelectSeq(all, LAMBDA m : m.override)
  /\ UNCHANGED <<mods, manifest>>
  /\ UNCHANGED <<vars, ivars, mvars, cvars>>

\* buildIndexJson of either builder: `files: this.files` is written to
\* modrinth.index.json
BuildIndexJson ==
  /\ builder \in {"server", "mrpack"}
  /\ ~scanFailed /\ ~manifest.written
  /\ manifest' = [written |-> TRUE, files |-> files]
  /\ UNCHANGED <<mods, builder, options, files, classified, overrideMods,
                 scanFailed>>
  /\ UNCHANGED <<vars, ivars, mvars, cvars>>

\* sync.js and the build script of scripts/: pack.json holds the result of
\* parseIndexFile for every mod, categorizeMods keeps those with Modrinth
\* data (the descriptors of download mode "url") and generateModrinthIndex
\* returns the index object
ModrinthBuild ==
  /\ builder = "none"
  /\ builder' = "modrinth"
  /\ \E ord \in Enumerations(DOMAIN mods) :
     LET modrinthMods == SelectSeq(packDataMods(mods, ord),
                                   LAMBDA m : m.modrinth)
         recs         == modrinthRecords(modrinthMods)
     IN  /\ classified' = recs
         /\ files' = recs
         /\ manifest' = [written |-> TRUE, files |-> recs]
  /\ UNCHANGED <<mods, options, overrideMods, scanFailed>>
  /\ UNCHANGED <<vars, ivars, mvars, cvars>>

PackNext ==
  \/ ServerScan
  \/ MrPackScan
  \/ BuildIndexJson
  \/ ModrinthBuild

PackSpec == PackInit /\ [][PackNext]_pvars

\* no pattern of a rule list of the call matches the mod n
RuleFree(n) ==
  n \notin (options.ensureMods \cup options.ignoreMods
               \cup options.ensureOptional)

\* the derivation rule: the support of a mod of side `side` on `platform`
DerivedSupport(platform, side, dis) ==
  IF side = "both" \/ side = platform
    THEN (IF dis THEN "optional" ELSE "required")
    ELSE "unsupported"

\* C17: for every builder (MrPackBuilder without its includeAll override),
\* a mod that declares the side both, client or server and that no rule
\* list matches is classified by the derivation rule on both platforms:
\* required where its side covers the platform, optional there when it is
\* disabled, unsupported elsewhere.
C17_SupportDerivation ==
  \A i \in 1..Len(classified) :
    LET m == classified[i]
        d == mods[m.mod]
    IN  (d.side # "none" /\ RuleFree(m.mod) /\ ~options.includeAll)
          => /\ m.env.client = DerivedSupport("client", d.side, d.disabled)
             /\ m.env.server = DerivedSupport("server", d.side, d.disabled)

\* C18: a mod whose descriptor declares no side, and that no rule list
\* matches, is classified as supported (not `unsupported`) on the client
\* and on the server, by every builder.
C18_DefaultSideBoth ==
  \A i \in 1..Len(classified) :
    LET m == classified[i]
    IN  (mods[m.mod].side = "none" /\ RuleFree(m.mod))
          => m.env.client # "unsupported" /\ m.env.server # "unsupported"

\* C19: after MrPackBuilder.scanModsDirectory, a mod matched by the
\* patterns of exactly one rule list has the client support of that list:
\* ignore gives optional if it is disabled and unsupported otherwise,
\* ensure gives required, or optional if it is disabled, ensureOptional
\* gives optional.
C19_RuleLists ==
  (builder = "mrpack" /\ ~scanFailed) =>
    \A i \in 1..Len(classified) :
      LET m   == classified[i]
          n   == m.mod
          dis == mods[n].disabled
          ign == n \in options.ignoreMods
          ens == n \in options.ensureMods
          opt == n \in options.ensureOptional
      IN  /\ (ign /\ ~ens /\ ~opt)
               => m.env.client = (IF dis THEN "optional" ELSE "unsupported")
          /\ (ens /\ ~ign /\ ~opt)
               => m.env.client = (IF dis THEN "optional" ELSE "required")
          /\ (opt /\ ~ign /\ ~ens)
               => m.env.client = "optional"

\* the mod n has a download URL: its descriptor gives one, or the API
\* resolves its hash to a single file
Resolvable(n) ==
  \/ mods[n].mode = "url"
  \/ /\ mods[n].mode = "metadata:curseforge"
     /\ ~becomesOverride(getModrinthVersionId(mods[n]))

\* C20: in the manifest written by MrPackBuilder, a mod with a download
\* URL (and a declared side) has exactly one record when its final support
\* is not `unsupported` on at least one platform, and no record when it is
\* `unsupported` on both.
C20_ManifestRecords ==
  (builder = "mrpack" /\ manifest.written) =>
    \A i \in 1..Len(classified) :
      LET m    == classified[i]
          recs == { j \in 1..Len(manifest.files) :
                      manifest.files[j].mod = m.mod }
      IN  (Resolvable(m.mod) /\ mods[m.mod].side # "none") =>
            IF m.env.client = "unsupported" /\ m.env.server = "unsupported"
              THEN recs = {}
              ELSE Cardinality(recs) = 1

\* the positions of the sequence recs that are about the mod n
RecordsOf(recs, n) == { j \in 1..Len(recs) : recs[j].mod = n }

\* C21: MrPackBuilder.scanModsDirectory does not fail on a mod resolved by
\* hash lookup.  When the lookup fails or returns zero or several files
\* the mod is in overrideMods and has no record in `files`; when it
\* returns exactly one file the mod has one record in `files`, with a
\* single download URL, and is not in overrideMods.
C21_HashLookupBuckets ==
  builder = "mrpack" =>
    /\ (\A n \in DOMAIN mods : mods[n].mode # "other") => ~scanFailed
    /\ ~scanFailed =>
         \A n \in DOMAIN mods :
           mods[n].mode = "metadata:curseforge" =>
             IF mods[n].apiError \/ mods[n].hits # 1
               THEN /\ Cardinality(RecordsOf(overrideMods, n)) = 1
                    /\ RecordsOf(files, n) = {}
               ELSE /\ RecordsOf(overrideMods, n) = {}
                    /\ Cardinality(RecordsOf(files, n)) = 1
                    /\ \A j \in RecordsOf(files, n) :
                         Len(files[j].downloads) = 1

\* a scan with a mod whose lookup returned two files and a mod whose
\* lookup returned one
C21_Witness ==
  /\ builder = "mrpack" /\ ~scanFailed
  /\ \E n, k \in DOMAIN mods :
       /\ mods[n].mode = "metadata:curseforge" /\ mods[n].hits = 2
       /\ RecordsOf(overrideMods, n) # {}
       /\ mods[k].mode = "metadata:curseforge" /\ mods[k].hits = 1
       /\ RecordsOf(files, k) # {}

\* C22: every record of the manifest written by MrPackBuilder carries the
\* file size and the hashes of the binary on disk, for the direct-URL and
\* for the hash-lookup download mode.
C22_OnDiskSizeAndHashes ==
  (builder = "mrpack" /\ manifest.written) =>
    \A j \in 1..Len(manifest.files) : manifest.files[j].meta = "onDisk"

\* the place of the mod filename n in filename order
Rank(n) == CHOOSE i \in DOMAIN PackOrder : PackOrder[i] = n

\* C23: the `files` of the manifest written by MrPackBuilder are in the
\* order of the mod filenames, whatever the order in which the index
\* directory was listed.
C23_FilenameOrder ==
  (builder = "mrpack" /\ manifest.written) =>
    \A i, j \in 1..Len(manifest.files) :
      i < j => Rank(manifest.files[i].mod) < Rank(manifest.files[j].mod)

\* the instance of the example: A (a.jar) has side both and is enabled,
\* B (b.jar) has side client and is disabled, and the builder was called
\* without rule patterns
ExampleInstance ==
  /\ DOMAIN mods = {"a.jar", "b.jar"}
  /\ mods["a.jar"].side = "both" /\ ~mods["a.jar"].disabled
  /\ mods["b.jar"].side = "client" /\ mods["b.jar"].disabled
  /\ options.ensureMods = {} /\ options.ignoreMods = {}
  /\ options.ensureOptional = {}

\* the lists of the example: ServerBuilder keeps A only; the manifest of
\* MrPackBuilder has a record for A (required, required) and one for B
\* (client optional, server unsupported)
ExampleLists ==
  /\ (builder = "server" /\ ~scanFailed) =>
       Len(files) = 1 /\ files[1].mod = "a.jar"
  /\ (builder = "mrpack" /\ manifest.written) =>
       /\ Len(manifest.files) = 2
       /\ \A j \in 1..Len(manifest.files) :
            LET f == manifest.files[j]
            IN  \/ f.mod = "a.jar" /\ f.env = [client |-> "required",
                                                server |-> "required"]
                \/ f.mod = "b.jar" /\ f.env = [client |-> "optional",
                                                server |-> "unsupported"]
       /\ RecordsOf(manifest.files, "a.jar") # {}
       /\ RecordsOf(manifest.files, "b.jar") # {}

\* C24 as stated: for the example instance, whatever the download modes of
\* the two descriptors, the server list has length 1 and the manifest of
\* the client pack has length 2.
C24_ExampleAnyMode == ExampleInstance => ExampleLists

\* C24: for the example instance with two descriptors that have a download
\* URL (direct, or a lookup that returns one file), the server list has
\* length 1 (A only) and the manifest of the client pack has length 2 (A
\* required on both platforms, B optional on the client and unsupported on
\* the server).
C24_ExampleLengths ==
  (ExampleInstance /\ Resolvable("a.jar") /\ Resolvable("b.jar"))
    => ExampleLists

\* the manifest of the client pack for the example, one descriptor with a
\* direct URL and one resolved by lookup
C24_Witness ==
  /\ ExampleInstance
  /\ mods["a.jar"].mode = "url"
  /\ mods["b.jar"].mode = "metadata:curseforge" /\ mods["b.jar"].hits = 1
  /\ builder = "mrpack" /\ manifest.written
  /\ Len(manifest.files) = 2

\* C26: a mod matched by an ignore pattern and by an ensure pattern ends
\* as the ensure rule leaves it, in MrPackBuilder (client support required,
\* or optional if it is disabled) and in ServerBuilder (it is in `files`).
C26_EnsureWinsOverIgnore ==
  ~scanFailed =>
    \A n \in options.ignoreMods \cap options.ensureMods :
      /\ builder = "mrpack" =>
           \A j \in RecordsOf(classified, n) :
             classified[j].env.client =
               (IF mods[n].disabled THEN "optional" ELSE "required")
      /\ builder = "server" => RecordsOf(files, n) # {}

\* the number of places of the sequence list that hold x
Occurrences(list, x) == Cardinality({ k \in 1..Len(list) : list[k] = x })

\* the plan p sorts the scanned items its: every file item is once in
\* exactly one of toUpload, unchanged and protected, and these lists hold
\* file items of the scan only
SortsFileItems(p, its) ==
  /\ \A k \in 1..Len(its) :
       its[k].type = "file" =>
         Occurrences(p.toUpload, its[k]) + Occurrences(p.unchanged, its[k])
           + Occurrences(p.protected, its[k]) = 1
  /\ \A x \in Range(p.toUpload) \cup Range(p.unchanged)
              \cup Range(p.protected) :
       x.type = "file" /\ x \in Range(its)

\* C28: in every plan of analyzeDeployment each scanned local file item is
\* in exactly one of toUpload, unchanged and protected, and nothing but a
\* scanned local file is in those lists.
C28_PlanPartition ==
  /\ SortsFileItems(analysis, items)
  /\ pc = "replanned"
       => SortsFileItems(replan, scanServerDirectory(local, skipLibraries))

\* a plan over a scan with a directory item and a protected file that the
\* server has with another size
C28_Witness ==
  /\ pc = "planned"
  /\ \E k \in 1..Len(items) : items[k].type = "directory"
  /\ \E k \in 1..Len(items) :
       /\ items[k].type = "file"
       /\ items[k].name \in DOMAIN remoteFiles
       /\ remoteFiles[items[k].name] # items[k].size
       /\ analysis.protected = <<items[k]>>
  /\ analysis.toUpload = << >> /\ analysis.unchanged = << >>

\* C29: once deploy() has opened the SFTP connection, the connection is
\* open while it works and closed at every ending: the successful return,
\* the return without changes, the declined confirmation, the analysis
\* error and the failed upload or directory creation.
C29_ConnectionClosed ==
  /\ pc \in {"connected", "planned", "ensureRoot", "delete", "upload"} => connOpen
  /\ pc = "done" => ~connOpen

\* a run that ended in the outer catch after its connection was used
C29_Witness ==
  /\ pc = "done" /\ result = "exit1" /\ ~connOpen
  /\ SomeFailed({"put"})

\* ---------------------------------------------------------------------
\* sftp.js compareMods and deployMods: the selective update of the remote
\* mods directory

\* the file names of a mods directory in the order a listing gives them
ModListing == <<"a.jar", "b.jar", "c.jar">>

\* the remote mods directory, remoteModsDir of the two functions
ModsPath == <<"mods">>

\* the regular files of the directory dir, as {name, size} in listing order
modInfos(dir) ==
  LET names == SelectSeq(ModListing, LAMBDA n : n \in DOMAIN dir)
  IN  [i \in 1..Len(names) |-> [name |-> names[i], size |-> dir[names[i]]]]

\* compareMods: lm and rm are the local and the remote mods directory,
\* listed says whether the remote directory was found and listed (a
\* throwing stat reads as "not there", a throwing list is caught: in both
\* cases remoteMods stays empty)
compareMods(lm, rm, listed) ==
  LET localInfos  == modInfos(lm)
      remoteInfos == IF listed THEN modInfos(rm) ELSE << >>
      remoteOf(l) == { r \in Range(remoteInfos) : r.name = l.name }
      changed(l)  == remoteOf(l) = {} \/ \E r \in remoteOf(l) : r.size # l.size
  IN  [toUpload  |-> SelectSeq(localInfos, changed),
       unchanged |-> SelectSeq(localInfos, LAMBDA l : ~changed(l)),
       toDelete  |-> SelectSeq(remoteInfos,
                               LAMBDA r : \A l \in Range(localInfos) :
                                            l.name # r.name)]

ModsInit ==
  /\ \E L \in SUBSET Range(ModListing), R \in SUBSET Range(ModListing) :
       /\ localMods \in [L -> Sizes]
       /\ remoteMods \in [R -> Sizes]
       /\ remoteModsDir \in {b \in BOOLEAN : R # {} => b}
  /\ mpc = "start"
  /\ comparison = NoComparison
  /\ mi = 1
  /\ mlog = << >>
  /\ mfaults = 0
  /\ DeployIdle
  /\ IndexIdle
  /\ PackIdle
  /\ CacheIdle

\* compareMods: the stat or the list of the remote directory may throw
ModsCompare ==
  /\ mpc = "start"
  /\ \E statThrows \in {b \in BOOLEAN : b => remoteModsDir},
        listThrows \in {b \in BOOLEAN : b => remoteModsDir} :
       LET cost == (IF statThrows THEN 1 ELSE 0)
                     + (IF ~statThrows /\ listThrows THEN 1 ELSE 0)
       IN  /\ statThrows => ~listThrows
           /\ mfaults + cost <= MaxFaults
           /\ mfaults' = mfaults + cost
           /\ comparison' =
                compareMods(localMods, remoteMods,
                            remoteModsDir /\ ~statThrows /\ ~listThrows)
  /\ mpc' = "compared"
  /\ UNCHANGED <<localMods, remoteMods, remoteModsDir, mi, mlog>>
  /\ UNCHANGED <<vars, ivars, pvars, cvars>>

\* where deployMods goes once a loop is over
StepAfterModUploads(cmp) ==
  IF Len(cmp.toDelete) > 0 THEN "delete" ELSE "done"

StepAfterModsDir(cmp) ==
  IF Len(cmp.toUpload) > 0 THEN "upload" ELSE StepAfterModUploads(cmp)

\* deployMods: "Ensure remote mods directory exists"
ModsEnsureDir ==
  /\ mpc = "compared"
  /\ \E o \in ensureRemoteDir(<< >>,
                               IF remoteModsDir THEN {Root, ModsPath}
                                                ELSE {Root},
                               ModsPath, MaxFaults - mfaults) :
       /\ mlog' = mlog \o o.calls
       /\ mfaults' = mfaults + o.cost
       /\ remoteModsDir' = (ModsPath \in o.dirs)
       /\ mpc' = IF o.ok THEN StepAfterModsDir(comparison) ELSE "thrown"
  /\ mi' = 1
  /\ UNCHANGED <<localMods, remoteMods, comparison>>
  /\ UNCHANGED <<vars, ivars, pvars, cvars>>

\* deployMods: one turn of "Upload new/changed mods"; a failed put is
\* thrown to the caller
ModsUpload ==
  /\ mpc = "upload"
  /\ LET mod  == comparison.toUpload[mi]
         last == mi = Len(comparison.toUpload)
     IN  \E ok \in {b \in BOOLEAN : ~b => mfaults < MaxFaults} :
           /\ mlog' = Append(mlog, Call("put", ModsPath \o <<mod.name>>, ok))
           /\ mfaults' = mfaults + (IF ok THEN 0 ELSE 1)
           /\ remoteMods' =
                IF ok
                  THEN [n \in DOMAIN remoteMods \cup {mod.name} |->
                          IF n = mod.name THEN mod.size ELSE remoteMods[n]]
                  ELSE remoteMods
           /\ mpc' = IF ~ok THEN "thrown"
                     ELSE IF last THEN StepAfterModUploads(comparison)
                     ELSE "upload"
           /\ mi' = IF ok /\ ~last THEN mi + 1 ELSE 1
  /\ UNCHANGED <<localMods, remoteModsDir, comparison>>
  /\ UNCHANGED <<vars, ivars, pvars, cvars>>

\* deployMods: one turn of "Delete removed mods"; a failed delete is
\* caught and only warned about
ModsDelete ==
  /\ mpc = "delete"
  /\ LET mod  == comparison.toDelete[mi]
         last == mi = Len(comparison.toDelete)
     IN  \E ok \in {b \in BOOLEAN : ~b => mfaults < MaxFaults} :
           /\ mlog' = Append(mlog, Call("delete", ModsPath \o <<mod.name>>, ok))
           /\ mfaults' = mfaults + (IF ok THEN 0 ELSE 1)
           /\ remoteMods' =
                IF ok THEN Without(remoteMods, mod.name) ELSE remoteMods
           /\ mpc' = IF last THEN "done" ELSE "delete"
           /\ mi' = IF last THEN 1 ELSE mi + 1
  /\ UNCHANGED <<localMods, remoteModsDir, comparison>>
  /\ UNCHANGED <<vars, ivars, pvars, cvars>>

ModsNext ==
  \/ ModsCompare
  \/ ModsEnsureDir
  \/ ModsUpload
  \/ ModsDelete

ModsSpec == ModsInit /\ [][ModsNext]_mvars

\* C27: in deployMods every deletion of an obsolete remote mod is made
\* before the first upload: no put precedes a delete.
C27_DeletesBeforeUploads ==
  \A i, j \in 1..Len(mlog) :
    (i < j /\ mlog[i].op = "put") => mlog[j].op # "delete"

\* ---------------------------------------------------------------------
\* instance.js downloadWithCache and downloadServerMods: the download of
\* the server's mods through the cache directory

\* the contents a download URL may serve
Contents == {"x", "y"}

\* crypto.createHash(hashType).update(buffer).digest('hex')
digest(buffer) == IF buffer = "x" THEN "hx" ELSE "hy"

\* mod.sha512 as parseIndexFile leaves it: the hash of the descriptor, or
\* null when the descriptor gives no sha512 hash
ExpectedHashes == {"hx", "hy", "null"}

\* a mod of pack.json: served is what its download URL answers, "fail"
\* for a response that is not ok; modrinth is FALSE when the descriptor
\* had no Modrinth data, and then mod.modrinth is undefined
CacheMods(n) ==
  [filename : {n}, sha512 : ExpectedHashes, modrinth : BOOLEAN,
   served : Contents \cup {"fail"}]

\* path.join(cacheDir, `${expectedHash}.mod`), as the name of the entry
cacheFile(expectedHash) ==
  CASE expectedHash = "hx" -> "hx.mod"
    [] expectedHash = "hy" -> "hy.mod"
    [] OTHER               -> "null.mod"

\* `if (expectedHash)`, with the comparison of the hashes
hashAccepted(expectedHash, buffer) ==
  expectedHash = "null" \/ digest(buffer) = expectedHash

\* downloadWithCache with a slip: the buffer is saved to the cache before
\* its hash is verified
downloadWithCacheSaveFirst(c, mod) ==
  LET entry == cacheFile(mod.sha512)
      saved == [e \in DOMAIN c \cup {entry} |->
                  IF e = entry THEN mod.served ELSE c[e]]
  IN  IF entry \in DOMAIN c
        THEN [thrown |-> FALSE, cache |-> c, file |-> entry]
        ELSE IF mod.served = "fail"
          THEN [thrown |-> TRUE, cache |-> c, file |-> entry]
          ELSE [thrown |-> ~hashAccepted(mod.sha512, mod.served),
                cache |-> saved, file |-> entry]

\* downloadWithCache(url, expectedHash, cacheDir, filename) for the mod
\* `mod` and the cache directory c: whether it throws, the cache directory
\* after the call and the entry it returns
downloadWithCache(c, mod) ==
  LET entry == cacheFile(mod.sha512)
      saved == [e \in DOMAIN c \cup {entry} |->
                  IF e = entry THEN mod.served ELSE c[e]]
  IN  IF entry \in DOMAIN c
        THEN [thrown |-> FALSE, cache |-> c, file |-> entry]
        ELSE IF mod.served = "fail"
          THEN [thrown |-> TRUE, cache |-> c, file |-> entry]
          ELSE IF ~hashAccepted(mod.sha512, mod.served)
            THEN [thrown |-> TRUE, cache |-> c, file |-> entry]
            ELSE [thrown |-> FALSE, cache |-> saved, file |-> entry]

\* downloadServerMods is called with an empty cache and an empty mods
\* directory, for mods of distinct file names
CacheInit ==
  /\ \E S \in SUBSET Range(PackOrder) : \E ord \in Enumerations(S) :
       \E ms \in [S -> UNION { CacheMods(n) : n \in S }] :
         /\ \A n \in S : ms[n].filename = n
         /\ serverMods = [i \in 1..Len(ord) |-> ms[ord[i]]]
  /\ cache = << >>
  /\ serverModsDir = << >>
  /\ cpc = "loop"
  /\ ci = 1
  /\ errors = << >>
  /\ summary = NoSummary
  /\ DeployIdle
  /\ IndexIdle
  /\ PackIdle
  /\ ModsIdle

\* one turn of the loop of downloadServerMods: the try block with
\* downloadWithCache and fs.copy, and its catch
DownloadMod ==
  /\ cpc = "loop" /\ ci <= Len(serverMods)
  /\ LET mod == serverMods[ci]
         r   == downloadWithCache(cache, mod)
     IN  IF ~mod.modrinth
           THEN \* mod.modrinth.modId throws a TypeError
                /\ errors' = Append(errors, mod.filename)
                /\ UNCHANGED <<cache, serverModsDir>>
           ELSE /\ cache' = r.cache
                /\ IF r.thrown
                     THEN /\ errors' = Append(errors, mod.filename)
                          /\ UNCHANGED serverModsDir
                     ELSE /\ serverModsDir' =
                               [f \in DOMAIN serverModsDir \cup {mod.filename}
                                  |-> IF f = mod.filename
                                        THEN r.cache[r.file]
                                        ELSE serverModsDir[f]]
                          /\ UNCHANGED errors
  /\ ci' = ci + 1
  /\ UNCHANGED <<serverMods, cpc, summary>>
  /\ UNCHANGED <<vars, ivars, pvars, mvars>>

\* the loop is over: downloadServerMods returns its counts
DownloadReturn ==
  /\ cpc = "loop" /\ ci > Len(serverMods)
  /\ cpc' = "returned"
  /\ summary' = [success  |-> Len(serverMods) - Len(errors),
                 failed   |-> Len(errors),
                 returned |-> TRUE]
  /\ UNCHANGED <<serverMods, cache, serverModsDir, ci, errors>>
  /\ UNCHANGED <<vars, ivars, pvars, mvars>>

CacheNext ==
  \/ DownloadMod
  \/ DownloadReturn

CacheSpec == CacheInit /\ [][CacheNext]_cvars

\* the download of the mod fails: its URL answers with an error, or with
\* a content whose hash is not the expected one
DownloadFails(mod) ==
  mod.served = "fail" \/ ~hashAccepted(mod.sha512, mod.served)

\* C25: when the download of one server mod fails or its hash does not
\* match, only that mod fails: its name is pushed to the error list,
\* nothing is placed in the cache or in the server's mods directory, and
\* the loop goes on with the next mod; when downloadServerMods returns,
\* every mod has been processed and success + failed is their number.
C25_FailureIsolated ==
  [][ /\ (/\ cpc = "loop" /\ ci <= Len(serverMods)
          /\ serverMods[ci].modrinth
          /\ cacheFile(serverMods[ci].sha512) \notin DOMAIN cache
          /\ DownloadFails(serverMods[ci]))
        => /\ errors' = Append(errors, serverMods[ci].filename)
           /\ cache' = cache
           /\ serverModsDir' = serverModsDir
           /\ cpc' = "loop" /\ ci' = ci + 1
      /\ summary'.returned
        => /\ ci' = Len(serverMods) + 1
           /\ summary'.failed = Len(errors')
           /\ summary'.success + summary'.failed = Len(serverMods)
           /\ summary'.success = Cardinality(DOMAIN serverModsDir') ]_cvars

\* a returned call whose first mod failed its hash check and whose second
\* mod was downloaded, cached and placed
C25_Witness ==
  /\ cpc = "returned" /\ Len(serverMods) = 2
  /\ serverMods[1].modrinth
  /\ serverMods[1].sha512 = "hx" /\ serverMods[1].served = "y"
  /\ errors = <<serverMods[1].filename>>
  /\ serverMods[2].filename \in DOMAIN serverModsDir
  /\ cacheFile(serverMods[2].sha512) \in DOMAIN cache
  /\ summary = [success |-> 1, failed |-> 1, returned |-> TRUE]

\* C30: every mod that downloadWithCache returned a file for, and whose
\* URL serves a content the hash check accepts (or for which no hash is
\* expected), is placed with the content its URL serves.
C30_CacheReturnsServedContent ==
  \A k \in 1..(ci - 1) :
    LET mod == serverMods[k]
    IN  (/\ mod.filename \in DOMAIN serverModsDir
         /\ mod.served \in Contents
         /\ hashAccepted(mod.sha512, mod.served))
          => serverModsDir[mod.filename] = mod.served

====
